---- MODULE Spec2Model ----
(***************************************************************************)
(* Aircraft-availability timeline: the temporal aggregation and overlay    *)
(* engine of the App component (all source variants).                      *)
(*                                                                         *)
(* Encodings                                                               *)
(*   - A calendar date key "YYYY-MM-DD" is the number of days since        *)
(*     1970-01-01; a Date object is its instant in minutes since the       *)
(*     epoch (UTC).  Daylight-saving shifts are not modelled.              *)
(*   - A clock code "HHMM" is the sequence of its four decimal digits.     *)
(*   - Fractional hours and pixels are rationals kept as integers in       *)
(*     units of 1/60 (sH60 = 60 * sH, width60 = 60 * width); binary        *)
(*     floating-point rounding is not modelled.                            *)
(***************************************************************************)
EXTENDS Integers, Sequences, FiniteSets, TLC

VARIABLES
    variant,        \* which source file of the App component is running
    tz,             \* UTC offset of the runtime, minutes east of Greenwich
    metarData,      \* imported weather dataset (alb_metar.json)
    data,           \* imported activity dataset (aircraft_activity.json)
    metarLookup,    \* useMemo: date key -> hour -> weather record
    hourPx,         \* useState: zoom, pixels per hour
    visible,        \* useState: per-aircraft visibility
    showFlightCat,  \* useState: flight-category layer toggle
    showTemp,       \* useState: temperature layer toggle
    catFilters,     \* useState: per-category inclusion
    screen,         \* what the last render pass put on screen
    weeks,          \* useMemo: the week grid, an array of arrays of Date objects
    toggleParity,   \* history: per flag, the number of toggle calls so far mod 2
    selectedAircraft, \* App-00 useState: the list of selected identifiers
    call,           \* the function application under examination
    ret             \* its result

vars == <<variant, tz, metarData, data, metarLookup, hourPx, visible, showFlightCat,
          showTemp, catFilters, screen, weeks, toggleParity, selectedAircraft,
          call, ret>>

----------------------------------------------------------------------------
(* Program constants *)

tailsOrder == <<"N65620", "N854GW", "N756VH">>

Tails == {tailsOrder[i] : i \in 1..Len(tailsOrder)}

\* keys of catFilters / flightCategoryColor, in insertion order
CategoryOrder == <<"LIFR", "IFR", "MVFR", "VFR">>

Categories == {CategoryOrder[i] : i \in 1..Len(CategoryOrder)}

DEFAULT_HOUR_PX == 4

\* <input type="range" min="2" max="8" step="2">
ZoomValues == {2, 4, 6, 8}

----------------------------------------------------------------------------
(* Dates and clock codes *)

MinutesPerDay == 1440

\* 2025-01-15 as a date key: 2025-01-01 is day 20089 since 1970-01-01
D20250115 == 20089 + 14

\* date.toISOString().slice(0,10): the UTC calendar date of the instant
ISOKey(date) == date \div MinutesPerDay

\* nd = new Date(date); nd.setDate(nd.getDate()+1)
AddDay(date) == date + MinutesPerDay

\* new Date(dKey): a date-only ISO string is parsed as UTC midnight
DateFromKey(dKey) == dKey * MinutesPerDay

\* new Date(y, m, d): local midnight of the calendar day
LocalMidnight(day, offset) == day * MinutesPerDay - offset

\* +code.slice(0,2)
HourOf(code) == code[1] * 10 + code[2]

\* +code.slice(2)
MinuteOf(code) == code[3] * 10 + code[4]

\* the clock code of hour h, minute m
Code(h, m) == <<h \div 10, h % 10, m \div 10, m % 10>>

\* a nullable numeric field: null is the empty sequence, the number n the
\* one-element sequence <<n>>
Null == <<>>

Num(n) == <<n>>

----------------------------------------------------------------------------
(* Weather Join Index *)

\* r.local_time.slice(0,10)
RecKey(r) == r.local_time[1]

\* new Date("YYYY-MM-DDTHH:MM"): a date-time string without offset is parsed
\* as local time
ParseLocal(lt) == lt[1] * MinutesPerDay + lt[2] * 60 + lt[3] - tz

\* date.getHours(): the hour of the instant on the local clock
GetHours(date) == ((date + tz) % MinutesPerDay) \div 60

\* new Date(r.local_time).getHours()
RecHour(r) == GetHours(ParseLocal(r.local_time))

PutRecordKeepFirst(m, r) ==
    LET key   == RecKey(r)
        hr    == RecHour(r)
        inner == IF key \in DOMAIN m THEN m[key] ELSE <<>>
        put   == [h \in (DOMAIN inner) \cup {hr} |->
                     IF h \in DOMAIN inner THEN inner[h] ELSE r]
    IN  [k \in (DOMAIN m) \cup {key} |-> IF k = key THEN put ELSE m[k]]

\* m[key] = m[key]||{}; m[key][hr] = r
PutRecord(m, r) ==
    LET key   == RecKey(r)
        hr    == RecHour(r)
        inner == IF key \in DOMAIN m THEN m[key] ELSE <<>>
        put   == [h \in (DOMAIN inner) \cup {hr} |->
                     IF h = hr THEN r ELSE inner[h]]
    IN  [k \in (DOMAIN m) \cup {key} |-> IF k = key THEN put ELSE m[k]]

RECURSIVE BuildFrom(_, _, _)
\* metarData.forEach(r => ...) from record i on
BuildFrom(m, recs, i) ==
    IF i > Len(recs) THEN m
    ELSE BuildFrom(PutRecord(m, recs[i]), recs, i + 1)

\* const metarLookup = useMemo(() => { const m = {}; ...; return m; }, [])
BuildLookup(recs) == BuildFrom(<<>>, recs, 1)

\* metarLookup[dKey]?.[hr] is defined
HasRec(dKey, hr) ==
    /\ dKey \in DOMAIN metarLookup
    /\ hr \in DOMAIN metarLookup[dKey]

----------------------------------------------------------------------------
(* Category Membership Test *)

\* let sMin = sh*60 + sm
StartMin(start) == HourOf(start) * 60 + MinuteOf(start)

EndMinStrict(start, end) ==
    LET eMin == HourOf(end) * 60 + MinuteOf(end)
    IN  IF eMin < StartMin(start) THEN eMin + 1440 ELSE eMin

\* let eMin = eh*60 + em; if (eMin <= sMin) eMin += 1440
EndMin(start, end) ==
    LET eMin == HourOf(end) * 60 + MinuteOf(end)
    IN  IF eMin <= StartMin(start) THEN eMin + 1440 ELSE eMin

BucketNoWrap(date, t) ==
    LET hr == t \div 60
    IN  IF hr >= 24 THEN <<ISOKey(AddDay(date)), hr>>
        ELSE <<ISOKey(date), hr>>

\* the (dKey, hr) looked up by the loop body at minute t
Bucket(date, t) ==
    LET hr == t \div 60
    IN  IF hr >= 24 THEN <<ISOKey(AddDay(date)), hr % 24>>
        ELSE <<ISOKey(date), hr>>

RECURSIVE HasCategoryFrom(_, _, _, _, _)
\* for (let t = sMin; t < eMin; t += 60) { ... return true } return false,
\* from loop variable t on; looked is the sequence of lookups made so far
HasCategoryFrom(date, eMin, category, t, looked) ==
    IF ~(t < eMin) THEN [value |-> FALSE, lookups |-> looked]
    ELSE LET b    == Bucket(date, t)
             seen == Append(looked, b)
         IN  IF /\ HasRec(b[1], b[2])
                /\ metarLookup[b[1]][b[2]].flight_category = category
             THEN [value |-> TRUE, lookups |-> seen]
             ELSE HasCategoryFrom(date, eMin, category, t + 60, seen)

\* blockHasCategory(date, start, end, category), with the lookups it made
HasCategoryRun(date, start, end, category) ==
    HasCategoryFrom(date, EndMin(start, end), category, StartMin(start), <<>>)

blockHasCategory(date, start, end, category) ==
    HasCategoryRun(date, start, end, category).value

----------------------------------------------------------------------------
(* Inputs of the membership-test specification *)

\* longest weather dataset drawn
MaxRecords == 2

ClockHours == {0, 1, 23}

ClockMinutes == {0, 15, 30}

ClockCodes == {Code(h, m) : h \in ClockHours, m \in ClockMinutes}

\* (date key, hour) buckets that carry weather observations
WxBuckets == {<<D20250115, 1>>, <<D20250115, 23>>, <<D20250115 + 1, 1>>}

WxCategories == {"IFR", "VFR"}

WxRecords ==
    {[local_time |-> <<b[1], b[2], 0>>, flight_category |-> c, temp_C |-> Num(5)] :
        b \in WxBuckets, c \in WxCategories}

SeqsUpTo(S, n) == UNION {[1..k -> S] : k \in 0..n}

\* Date objects handed to blockHasCategory for the column 2025-01-15:
\* new Date("2025-01-15") and local midnights west of Greenwich
TestDates == {DateFromKey(D20250115), LocalMidnight(D20250115, -300)}

NoCall == [fn |-> "none"]

NoRet == [value |-> FALSE, lookups |-> <<>>]

\* the boolean flags of FilterState, by name
Flags == Tails \cup Categories \cup {"showFlightCat", "showTemp"}

\* no toggle has been called yet
NoToggles == [f \in Flags |-> 0]

\* one more toggle call on flag f
\* App-00: useState(["N756VH", "N65620", "N854GW"])
InitialSelection == <<"N756VH", "N65620", "N854GW">>

CountToggle(f) == toggleParity' = [toggleParity EXCEPT ![f] = 1 - @]

IdleFilters ==
    /\ toggleParity = NoToggles
    /\ selectedAircraft = InitialSelection
    /\ hourPx = DEFAULT_HOUR_PX
    /\ visible = [t \in Tails |-> TRUE]
    /\ showFlightCat = TRUE
    /\ showTemp = TRUE
    /\ catFilters = [c \in Categories |-> TRUE]

InitBHC ==
    /\ variant = "App24"
    /\ tz = -300
    /\ metarData \in SeqsUpTo(WxRecords, MaxRecords)
    /\ metarLookup = BuildLookup(metarData)
    /\ data = [t \in Tails |-> <<>>]
    /\ IdleFilters
    /\ screen = <<>>
    /\ weeks = <<>>
    /\ call = NoCall
    /\ ret = NoRet

\* one application of blockHasCategory
CallBlockHasCategory ==
    \E date \in TestDates, start \in ClockCodes, end \in ClockCodes,
       category \in Categories :
        /\ call = NoCall
        /\ call' = [fn |-> "blockHasCategory", date |-> date, start |-> start,
                    end |-> end, category |-> category]
        /\ ret' = HasCategoryRun(date, start, end, category)
        /\ UNCHANGED <<variant, tz, metarData, data, metarLookup, hourPx, visible,
                       showFlightCat, showTemp, catFilters, screen, weeks,
                       toggleParity, selectedAircraft>>

NextBHC == CallBlockHasCategory

SpecBHC == InitBHC /\ [][NextBHC]_vars

----------------------------------------------------------------------------
(* Properties of the membership test, stated over the call and its result *)

IsBHC == call.fn = "blockHasCategory"

\* the interval [sMin, eMin) of the call, by the cross-midnight rule
IntervalStart == 60 * HourOf(call.start) + MinuteOf(call.start)

IntervalEnd ==
    LET e == 60 * HourOf(call.end) + MinuteOf(call.end)
    IN  IF e <= IntervalStart THEN e + 1440 ELSE e

\* the index holds, at absolute hour ah counted from the call's date, a record
\* of the target category
IndexedMatch(ah) ==
    LET dKey == IF ah < 24 THEN ISOKey(call.date) ELSE ISOKey(call.date) + 1
        hr   == ah % 24
    IN  /\ dKey \in DOMAIN metarLookup
        /\ hr \in DOMAIN metarLookup[dKey]
        /\ metarLookup[dKey][hr].flight_category = call.category

\* C1: blockHasCategory is true iff some clock hour that contains at least one
\* minute of [sMin, eMin) has an indexed record of the target category,
\* whether or not start lies on an hour boundary.
C1_TouchedHours ==
    IsBHC =>
        (ret.value <=>
            \E ah \in 0..47 :
                /\ 60 * ah < IntervalEnd
                /\ 60 * ah + 60 > IntervalStart
                /\ IndexedMatch(ah))

\* C2: blockHasCategory is true iff some stepped bucket t = sMin + 60k < eMin
\* has, at (date or next date, floor(t/60) mod 24), an indexed record of the
\* target category; absent keys count as no match.
C2_SteppedBuckets ==
    IsBHC =>
        (ret.value <=>
            \E k \in 0..47 :
                /\ IntervalStart + 60 * k < IntervalEnd
                /\ IndexedMatch((IntervalStart + 60 * k) \div 60))

\* a match found on the next date after a lookup whose date key is absent
C2_Witness ==
    /\ IsBHC
    /\ ret.value
    /\ Len(ret.lookups) >= 2
    /\ ret.lookups[1][1] \notin DOMAIN metarLookup
    /\ ret.lookups[Len(ret.lookups)][1] = ISOKey(call.date) + 1

IsExample2330 ==
    /\ IsBHC
    /\ ISOKey(call.date) = D20250115
    /\ call.start = <<2, 3, 3, 0>>
    /\ call.end = <<0, 1, 3, 0>>

Example2330Keys ==
    <<(<<D20250115, 23>>), (<<D20250115 + 1, 0>>), (<<D20250115 + 1, 1>>)>>

MatchOnlyAtLastKey ==
    /\ IndexedMatch(25)
    /\ ~IndexedMatch(23)
    /\ ~IndexedMatch(24)

\* C3: for ("2330", "0130") on 2025-01-15 the test examines the keys
\* (2025-01-15, 23), (2025-01-16, 0), (2025-01-16, 1), in that order and no
\* others; a match stored only at (2025-01-16, 1) makes it return true.
C3_Example2330 ==
    IsExample2330 =>
        /\ Len(ret.lookups) <= 3
        /\ \A i \in 1..Len(ret.lookups) : ret.lookups[i] = Example2330Keys[i]
        /\ ~ret.value => ret.lookups = Example2330Keys
        /\ MatchOnlyAtLastKey => ret.value /\ ret.lookups = Example2330Keys

\* C4: a step of absolute hour below 24 is looked up at (date, hour), a step
\* of absolute hour 24 or more at (date + 1 day, hour - 24); the absolute hour
\* stays below 48 and every hour key is in 0..23.
C4_RollOver ==
    IsBHC =>
        \A i \in 1..Len(ret.lookups) :
            LET ah == (IntervalStart + 60 * (i - 1)) \div 60
            IN  /\ ah < 48
                /\ ah < 24 => ret.lookups[i] = <<ISOKey(call.date), ah>>
                /\ ah >= 24 => ret.lookups[i] = <<ISOKey(call.date) + 1, ah - 24>>
                /\ ret.lookups[i][2] \in 0..23

\* a run that made lookups on both sides of midnight
C4_Witness ==
    /\ IsBHC
    /\ \E i \in 1..Len(ret.lookups) : ret.lookups[i][1] = ISOKey(call.date)
    /\ \E i \in 1..Len(ret.lookups) :
           /\ ret.lookups[i][1] = ISOKey(call.date) + 1
           /\ (IntervalStart + 60 * (i - 1)) \div 60 >= 24

----------------------------------------------------------------------------
(* Time Interval Model: block geometry of each source variant *)

\* variants whose renderBlocks tests eH <= sH on a `let` binding
VariantsLE == {"App24", "App19", "part005"}

\* the variant (second component of App (09).js) whose renderBlocks declares
\* eH with `const` and then executes eH += 24
VariantsConstEnd == {"App09b"}

\* variants whose renderBlocks tests eH < sH
VariantsLT == {"App08", "App09", "App10", "part000", "part001", "part003"}

\* variants that draw activity blocks
BlockVariants ==
    VariantsLE \cup VariantsConstEnd \cup VariantsLT \cup {"part002", "part004"}

\* variants with a zoom slider (setHourPx); the others keep DEFAULT_HOUR_PX
ZoomVariants == VariantsLE \cup VariantsConstEnd \cup {"part000", "part003"}

\* sH = sh + sm/60, in 1/60 hour
FracHour60(code) == 60 * HourOf(code) + MinuteOf(code)

GeometryFixedScale(start, end, px) ==
    LET sH60 == FracHour60(start)
        eH60 == IF FracHour60(end) <= sH60 THEN FracHour60(end) + 24 * 60
                ELSE FracHour60(end)
    IN  [threw |-> FALSE, sH60 |-> sH60, eH60 |-> eH60,
         left60 |-> sH60 * DEFAULT_HOUR_PX,
         width60 |-> (eH60 - sH60) * DEFAULT_HOUR_PX]

GeometryStrictCompare(start, end, px) ==
    LET sH60 == FracHour60(start)
        eH60 == IF FracHour60(end) < sH60 THEN FracHour60(end) + 24 * 60
                ELSE FracHour60(end)
    IN  [threw |-> FALSE, sH60 |-> sH60, eH60 |-> eH60,
         left60 |-> sH60 * px, width60 |-> (eH60 - sH60) * px]

\* if (eH <= sH) eH += 24; left = sH * hourPx; width = (eH - sH) * hourPx
GeometryLE(start, end, px) ==
    LET sH60 == FracHour60(start)
        eH60 == IF FracHour60(end) <= sH60 THEN FracHour60(end) + 24 * 60
                ELSE FracHour60(end)
    IN  [threw |-> FALSE, sH60 |-> sH60, eH60 |-> eH60,
         left60 |-> sH60 * px, width60 |-> (eH60 - sH60) * px]

\* const ... eH = eh + em/60; if (eH <= sH) eH += 24;  the assignment to the
\* const binding throws a TypeError, so no left or width is produced
GeometryConstEnd(start, end, px) ==
    LET sH60 == FracHour60(start)
        eH60 == FracHour60(end)
    IN  IF eH60 <= sH60
        THEN [threw |-> TRUE, sH60 |-> sH60, eH60 |-> eH60]
        ELSE [threw |-> FALSE, sH60 |-> sH60, eH60 |-> eH60,
              left60 |-> sH60 * px, width60 |-> (eH60 - sH60) * px]

\* if (eH < sH) eH += 24; left = sH * hourPx; width = (eH - sH) * hourPx
GeometryLT(start, end, px) ==
    LET sH60 == FracHour60(start)
        eH60 == IF FracHour60(end) < sH60 THEN FracHour60(end) + 24 * 60
                ELSE FracHour60(end)
    IN  [threw |-> FALSE, sH60 |-> sH60, eH60 |-> eH60,
         left60 |-> sH60 * px, width60 |-> (eH60 - sH60) * px]

\* startPx = (sh + sm/60) * 2; if (endTotal < sh + sm/60) endTotal += 24;
\* widthPx = endTotal*2 - startPx
GeometryPart002(start, end) ==
    LET sH60    == FracHour60(start)
        startPx == sH60 * 2
        eH60    == IF FracHour60(end) < sH60 THEN FracHour60(end) + 24 * 60
                   ELSE FracHour60(end)
    IN  [threw |-> FALSE, sH60 |-> sH60, eH60 |-> eH60,
         left60 |-> startPx, width60 |-> eH60 * 2 - startPx]

\* leftPx = (startMin / 1440) * 48; widthPx = ((endMin - startMin) / 1440) * 48
GeometryPart004(start, end) ==
    LET startMin == HourOf(start) * 60 + MinuteOf(start)
        endMin   == HourOf(end) * 60 + MinuteOf(end)
    IN  [threw |-> FALSE, sH60 |-> startMin, eH60 |-> endMin,
         left60 |-> (startMin * 48 * 60) \div 1440,
         width60 |-> ((endMin - startMin) * 48 * 60) \div 1440]

\* the geometry a variant computes for the block [start, end] at zoom px
BlockGeometry(v, start, end, px) ==
    IF v \in VariantsLE THEN GeometryLE(start, end, px)
    ELSE IF v \in VariantsConstEnd THEN GeometryConstEnd(start, end, px)
    ELSE IF v \in VariantsLT THEN GeometryLT(start, end, px)
    ELSE IF v = "part002" THEN GeometryPart002(start, end)
    ELSE GeometryPart004(start, end)

----------------------------------------------------------------------------
(* Inputs of the block-geometry specification *)

GeomHours == {0, 1, 12, 23}

GeomMinutes == {0, 15, 30, 59}

GeomCodes == {Code(h, m) : h \in GeomHours, m \in GeomMinutes}

\* the zoom values a variant's hourPx can take
ZoomOf(v) ==
    IF v \in ZoomVariants THEN ZoomValues ELSE {DEFAULT_HOUR_PX}

InitGeom ==
    /\ variant = "App24"
    /\ tz = 0
    /\ metarData = <<>>
    /\ metarLookup = BuildLookup(metarData)
    /\ data = [t \in Tails |-> <<>>]
    /\ IdleFilters
    /\ screen = <<>>
    /\ weeks = <<>>
    /\ call = NoCall
    /\ ret = NoRet

\* variants with a membership test (blockHasCategory, or blockMatchesFilters
\* in App (19)) next to the block geometry
MembershipVariants == {"App24", "App19", "App09b", "part005"}

\* the day column the block is drawn in
GeomDate == DateFromKey(D20250115)

\* what the membership test of the variant computes for the block before
\* it is drawn: sMin, the adjusted eMin and the buckets it steps through
MembershipOf(v, start, end) ==
    IF v \in MembershipVariants
    THEN [tested |-> TRUE, sMin |-> StartMin(start),
          eMin |-> EndMin(start, end),
          lookups |-> HasCategoryRun(GeomDate, start, end, "VFR").lookups]
    ELSE [tested |-> FALSE]

\* the geometry of one block in one variant
CallBlockGeometry ==
    \E v \in BlockVariants, start \in GeomCodes, end \in GeomCodes :
        \E px \in ZoomOf(v) :
            /\ call = NoCall
            /\ call' = [fn |-> "geometry", variant |-> v,
                        start |-> start, end |-> end, px |-> px,
                        test |-> MembershipOf(v, start, end)]
            /\ ret' = BlockGeometry(v, start, end, px)
            /\ UNCHANGED <<variant, tz, metarData, data, metarLookup, hourPx, visible,
                           showFlightCat, showTemp, catFilters, screen, weeks,
                       toggleParity, selectedAircraft>>

NextGeom == CallBlockGeometry

SpecGeom == InitGeom /\ [][NextGeom]_vars

----------------------------------------------------------------------------
(* Properties of the block geometry *)

IsGeom == call.fn = "geometry"

\* parsed fractional hours of the call, in 1/60 hour
ParsedStart60 == 60 * HourOf(call.start) + MinuteOf(call.start)

ParsedEnd60 == 60 * HourOf(call.end) + MinuteOf(call.end)

\* C7: in every variant, a parsed end at or before the parsed start (equal
\* included) gives computed end = parsed end + 24 h; ("2330", "0130") gives
\* end 25.5 h and, at 4 px/hour, width 8 px.
C7_EndPlus24 ==
    IsGeom =>
        /\ ~ret.threw
        /\ ParsedEnd60 <= ParsedStart60 => ret.eH60 = ParsedEnd60 + 24 * 60
        /\ (call.start = <<2, 3, 3, 0>> /\ call.end = <<0, 1, 3, 0>>
                /\ call.px = 4 /\ call.variant \notin {"part002", "part004"})
             => ret.eH60 = 1530 /\ ret.width60 = 8 * 60

\* C8: in every variant the width of a block is non-negative for every
\* well-formed pair, also when the end clock value is before the start.
C8_WidthNonNegative == IsGeom => ~ret.threw /\ ret.width60 >= 0

C10_IntervalRange ==
    (IsGeom /\ call.variant = "App24") =>
        /\ 0 <= ret.sH60 /\ ret.sH60 < 24 * 60
        /\ ret.sH60 < ret.eH60 /\ ret.eH60 < 48 * 60
        /\ ret.eH60 - ret.sH60 <= 24 * 60
        /\ 0 <= ret.left60 /\ ret.left60 < 24 * call.px * 60
        /\ ret.width60 > 0

\* an interval of equal clock codes: a full day, right edge beyond the column
C10_Witness ==
    /\ IsGeom
    /\ call.variant = "App24"
    /\ call.start = call.end
    /\ ret.eH60 - ret.sH60 = 24 * 60
    /\ ret.left60 + ret.width60 > 24 * call.px * 60

----------------------------------------------------------------------------
(* Calendar Grid Builder *)

\* date.getDay(): weekday of the local calendar day, 0 = Sunday
\* (1970-01-01 was a Thursday)
GetDay(date) == ((date + tz) \div MinutesPerDay + 4) % 7

RECURSIVE FillWeek(_, _, _)
\* for (let i = 0; i < 7; i++) { wk.push(new Date(cur)); cur.setDate(+1) }
FillWeek(wk, cur, i) ==
    IF i < 7 THEN FillWeek(Append(wk, cur), AddDay(cur), i + 1)
    ELSE [wk |-> wk, cur |-> cur]

RECURSIVE WeeksLoopStrict(_, _, _)
WeeksLoopStrict(wks, cur, end) ==
    IF cur < end
    THEN LET f == FillWeek(<<>>, cur, 0)
         IN  WeeksLoopStrict(Append(wks, f.wk), f.cur, end)
    ELSE wks

RECURSIVE WeeksLoopPastEnd(_, _, _)
WeeksLoopPastEnd(wks, cur, end) ==
    IF cur <= AddDay(end)
    THEN LET f == FillWeek(<<>>, cur, 0)
         IN  WeeksLoopPastEnd(Append(wks, f.wk), f.cur, end)
    ELSE wks

RECURSIVE WeeksLoop(_, _, _)
\* while (cur <= end) { ...; weeks.push(wk) }
WeeksLoop(wks, cur, end) ==
    IF cur <= end
    THEN LET f == FillWeek(<<>>, cur, 0)
         IN  WeeksLoop(Append(wks, f.wk), f.cur, end)
    ELSE wks

buildWeeksFromSunday(start, end) ==
    LET first == start - GetDay(start) * MinutesPerDay
    IN  WeeksLoop(<<>>, first, end)

\* first.setDate(first.getDate() - ((first.getDay() + 6) % 7))
buildWeeks(start, end) ==
    LET first == start - ((GetDay(start) + 6) % 7) * MinutesPerDay
    IN  WeeksLoop(<<>>, first, end)

RECURSIVE GetWeeksLoop(_, _, _, _)
\* for (let d = new Date(first); d <= end; d.setDate(d.getDate() + 1)) {
\*   week.push(new Date(d));
\*   if (week.length === 7) { weeks.push(week); week = []; } }
GetWeeksLoop(wks, week, d, end) ==
    IF d <= end
    THEN LET w == Append(week, d)
         IN  IF Len(w) = 7
             THEN GetWeeksLoop(Append(wks, w), <<>>, AddDay(d), end)
             ELSE GetWeeksLoop(wks, w, AddDay(d), end)
    ELSE [weeks |-> wks, week |-> week]

\* getWeeks(start, end) of the earliest variant;
\* if (week.length) weeks.push(week)
getWeeks(start, end) ==
    LET offset == (GetDay(start) + 6) % 7
        first  == start - offset * MinutesPerDay
        r      == GetWeeksLoop(<<>>, <<>>, first, end)
    IN  IF Len(r.week) > 0 THEN Append(r.weeks, r.week) ELSE r.weeks

----------------------------------------------------------------------------
(* Inputs of the calendar-grid specification *)

\* runtime UTC offsets drawn: US Eastern standard time, Central European
\* summer time
TZOffsets == {-300, 120}

\* Monday 2025-01-13
D20250113 == D20250115 - 2

\* the requested start dates lie in the week of 2025-01-13 and the next
\* Monday; the requested end dates reach MaxSpanDays past 2025-01-13
MaxSpanDays == 15

StartDays == D20250113..(D20250113 + 7)

EndDays == (D20250113 - 2)..(D20250113 + MaxSpanDays)

\* new Date(y, m, d) is local midnight, new Date("YYYY-MM-DD") UTC midnight
DateOf(kind, day) ==
    IF kind = "local" THEN LocalMidnight(day, tz) ELSE DateFromKey(day)

InitWeeks ==
    /\ variant = "App24"
    /\ tz \in TZOffsets
    /\ metarData = <<>>
    /\ metarLookup = BuildLookup(metarData)
    /\ data = [t \in Tails |-> <<>>]
    /\ IdleFilters
    /\ screen = <<>>
    /\ weeks = <<>>
    /\ call = NoCall
    /\ ret = NoRet

\* one application of buildWeeks
CallBuildWeeks ==
    \E kind \in {"local", "utc"}, s \in StartDays, e \in EndDays :
        /\ call = NoCall
        /\ call' = [fn |-> "buildWeeks", start |-> DateOf(kind, s),
                    end |-> DateOf(kind, e)]
        /\ ret' = buildWeeks(DateOf(kind, s), DateOf(kind, e))
        /\ UNCHANGED <<variant, tz, metarData, data, metarLookup, hourPx, visible,
                       showFlightCat, showTemp, catFilters, screen, weeks,
                       toggleParity, selectedAircraft>>

\* one application of getWeeks
CallGetWeeks ==
    \E kind \in {"local", "utc"}, s \in StartDays, e \in EndDays :
        /\ call = NoCall
        /\ call' = [fn |-> "getWeeks", start |-> DateOf(kind, s),
                    end |-> DateOf(kind, e)]
        /\ ret' = getWeeks(DateOf(kind, s), DateOf(kind, e))
        /\ UNCHANGED <<variant, tz, metarData, data, metarLookup, hourPx, visible,
                       showFlightCat, showTemp, catFilters, screen, weeks,
                       toggleParity, selectedAircraft>>

NextWeeks == CallBuildWeeks \/ CallGetWeeks

SpecWeeks == InitWeeks /\ [][NextWeeks]_vars

\* The date range of the timeline.  The source runs from 2024-07-01 to
\* 2025-08-01; the model draws the week around 2025-01-15.
START_DATE == LocalMidnight(D20250115 - 1, tz)

END_DATE == LocalMidnight(D20250115 + 1, tz)

\* const weeks = useMemo(() => buildWeeks(START_DATE, END_DATE), [])
Weeks == buildWeeks(START_DATE, END_DATE)

\* weeks.map(week => week.map(d => ...)): the day columns of a grid, in order
ColumnsOf(w) ==
    [k \in 1..(7 * Len(w)) |-> w[((k - 1) \div 7) + 1][((k - 1) % 7) + 1]]

\* the day columns of the memoized grid
Columns == ColumnsOf(weeks)

----------------------------------------------------------------------------
(* Overlay Aggregator: aircraft rows *)

\* variants that keep catFilters and filter the activity blocks by them
FilterVariants == {"App24", "App19", "App09b", "part005"}

\* variants with the showFlightCat / showTemp buttons
LayerVariants == FilterVariants \cup {"part000"}

\* variants whose aircraft cell is {visible[t] && renderBlocks(t, d)}
GuardedRowVariants ==
    {"App24", "App19", "App09b", "part005", "App08", "App09", "part001",
     "part002", "part003"}

\* variants whose aircraft cell is {renderBlocks(tail, d)}
UnguardedRowVariants == {"App10", "part000"}

\* every variant that keeps the per-aircraft visible flags
VisibleVariants == GuardedRowVariants \cup UnguardedRowVariants

\* data[tail].blocksByDate[key] || []
BlocksOn(tail, key) ==
    IF key \in DOMAIN data[tail] THEN data[tail][key] ELSE <<>>

RECURSIVE MatchesFiltersFrom(_, _, _, _)
\* App (19): for (tMin = sMin; tMin < eMin; tMin += 60) { ... }
MatchesFiltersFrom(filters, date, eMin, tMin) ==
    IF ~(tMin < eMin) THEN FALSE
    ELSE LET b == Bucket(date, tMin)
         IN  IF /\ HasRec(b[1], b[2])
                /\ filters[metarLookup[b[1]][b[2]].flight_category]
             THEN TRUE
             ELSE MatchesFiltersFrom(filters, date, eMin, tMin + 60)

blockMatchesFirstBucket(filters, date, start, end) ==
    LET b == Bucket(date, StartMin(start))
    IN  /\ HasRec(b[1], b[2])
        /\ filters[metarLookup[b[1]][b[2]].flight_category]

\* App (19): blockMatchesFilters(date, start, end), reading catFilters
blockMatchesFilters(filters, date, start, end) ==
    MatchesFiltersFrom(filters, date, EndMin(start, end), StartMin(start))

PassesAnyCategory(filters, date, start, end) ==
    \E i \in 1..Len(CategoryOrder) :
        blockHasCategory(date, start, end, CategoryOrder[i])

\* Object.entries(catFilters).some(([cat,on]) =>
\*     on && blockHasCategory(date, start, end, cat))
PassesFilters(filters, date, start, end) ==
    \E i \in 1..Len(CategoryOrder) :
        /\ filters[CategoryOrder[i]]
        /\ blockHasCategory(date, start, end, CategoryOrder[i])

----------------------------------------------------------------------------
(* Inputs of the filter-formulation specification *)

\* category-filter states drawn: the weather records drawn are IFR or VFR
FilterStates ==
    {[c \in Categories |-> c \notin off] :
        off \in {{}, {"VFR"}, {"IFR"}, {"IFR", "VFR"}}}

\* both formulations of the activity filter on the same block
CallBothFilters ==
    \E date \in TestDates, start \in ClockCodes, end \in ClockCodes,
       filters \in FilterStates :
        /\ call = NoCall
        /\ call' = [fn |-> "filters", date |-> date, start |-> start,
                    end |-> end, filters |-> filters]
        /\ ret' = [matchesFilters |->
                       blockMatchesFilters(filters, date, start, end),
                   someCategory |-> PassesFilters(filters, date, start, end)]
        /\ UNCHANGED <<variant, tz, metarData, data, metarLookup, hourPx, visible,
                       showFlightCat, showTemp, catFilters, screen, weeks,
                       toggleParity, selectedAircraft>>

NextFilters == CallBothFilters

SpecFilters == InitBHC /\ [][NextFilters]_vars

----------------------------------------------------------------------------
BlockKeptUnfiltered(filters, date, start, end) ==
    \E c \in Categories : filters[c]

\* the test renderBlocks applies before drawing a block
BlockKept(filters, date, start, end) ==
    IF variant = "App19" THEN blockMatchesFilters(filters, date, start, end)
    ELSE IF variant \in FilterVariants
         THEN PassesFilters(filters, date, start, end)
    ELSE TRUE

\* "return null" of the map callback
NullSegment == [shown |-> FALSE]

\* the <div> of one block
Segment(tail, start, end, g) ==
    [shown |-> TRUE, tail |-> tail, start |-> start, end |-> end,
     left60 |-> g.left60, width60 |-> g.width60]

renderBlocksDimmed(filters, px, tail, date) ==
    LET blocks == BlocksOn(tail, ISOKey(date))
    IN  [i \in 1..Len(blocks) |->
            Segment(tail, blocks[i][1], blocks[i][2],
                    BlockGeometry(variant, blocks[i][1], blocks[i][2], px))]

\* renderBlocks(tail, date) / renderBlocksForDay(tail, date), reading the
\* catFilters and hourPx of the render pass
renderBlocks(filters, px, tail, date) ==
    LET blocks == BlocksOn(tail, ISOKey(date))
    IN  [i \in 1..Len(blocks) |->
            LET start == blocks[i][1]
                end   == blocks[i][2]
            IN  IF ~BlockKept(filters, date, start, end) THEN NullSegment
                ELSE Segment(tail, start, end,
                             BlockGeometry(variant, start, end, px))]

\* the content of the aircraft cell of one day column:
\* {visible[t] && renderBlocks(t, d)}, or {renderBlocks(tail, d)}
AircraftCell(vis, filters, px, tail, date) ==
    IF variant \in GuardedRowVariants
    THEN IF vis[tail] THEN renderBlocks(filters, px, tail, date) ELSE <<>>
    ELSE renderBlocks(filters, px, tail, date)

\* the aircraft cell of one day column throws while rendering: a block that
\* passes the filter reaches the assignment to the const binding eH (only the
\* variant declaring eH with const has such an assignment)
CellThrows(vis, filters, px, tail, date) ==
    LET blocks == BlocksOn(tail, ISOKey(date))
    IN  /\ variant \in VariantsConstEnd
        /\ variant \in UnguardedRowVariants \/ vis[tail]
        /\ \E i \in 1..Len(blocks) :
               /\ BlockGeometry(variant, blocks[i][1], blocks[i][2], px).threw
               /\ BlockKept(filters, date, blocks[i][1], blocks[i][2])

\* no count is displayed
NoCounts == <<>>

\* an error thrown during the render pass, with no error boundary in the
\* tree: the component is unmounted and nothing is on screen
Unmounted(cols) ==
    [crashed |-> TRUE,
     blocks |-> [t \in Tails |-> [k \in DOMAIN cols |-> <<>>]],
     cats |-> [k \in DOMAIN cols |-> <<>>],
     temps |-> [k \in DOMAIN cols |-> <<>>],
     counts |-> NoCounts]

----------------------------------------------------------------------------
(* Overlay Aggregator: weather rows *)

\* const flightCategoryColor = { LIFR: ..., IFR: ..., MVFR: ..., VFR: ... }
flightCategoryColor ==
    [c \in Categories |->
        IF c = "LIFR" THEN "#FF00FF"
        ELSE IF c = "IFR" THEN "#FF0000"
        ELSE IF c = "MVFR" THEN "#0000FF"
        ELSE "#00FF00"]

tempToColorExclusive(temp) ==
    IF temp = Null THEN "transparent"
    ELSE IF temp[1] < -30 THEN "#2c003e"
    ELSE IF temp[1] < -10 THEN "#0033cc"
    ELSE IF temp[1] < 0 THEN "#33ccff"
    ELSE IF temp[1] < 10 THEN "#66ffcc"
    ELSE IF temp[1] < 20 THEN "#ffff99"
    ELSE IF temp[1] < 30 THEN "#ffcc00"
    ELSE "#ff3300"

\* function tempToColor(temp)
tempToColor(temp) ==
    IF temp = Null THEN "transparent"
    ELSE IF temp[1] <= -30 THEN "#2c003e"
    ELSE IF temp[1] <= -10 THEN "#0033cc"
    ELSE IF temp[1] <= 0 THEN "#33ccff"
    ELSE IF temp[1] <= 10 THEN "#66ffcc"
    ELSE IF temp[1] <= 20 THEN "#ffff99"
    ELSE IF temp[1] <= 30 THEN "#ffcc00"
    ELSE "#ff3300"

----------------------------------------------------------------------------
(* Inputs of the temperature-colour specification *)

\* temperatures drawn: the integers of -MaxTemp..MaxTemp, and null
MaxTemp == 35

TempInputs == {Num(t) : t \in (0 - MaxTemp)..MaxTemp} \cup {Null}

InitTemp ==
    /\ variant = "App24"
    /\ tz = 0
    /\ metarData = <<>>
    /\ metarLookup = BuildLookup(metarData)
    /\ data = [t \in Tails |-> <<>>]
    /\ IdleFilters
    /\ screen = <<>>
    /\ weeks = <<>>
    /\ call = NoCall
    /\ ret = NoRet

\* tempToColor(rec.temp_C) for the records of two hours of a day
CallTempToColor ==
    \E a \in TempInputs, b \in TempInputs :
        /\ call = NoCall
        /\ call' = [fn |-> "tempToColor", temps |-> <<a, b>>]
        /\ ret' = <<tempToColor(a), tempToColor(b)>>
        /\ UNCHANGED <<variant, tz, metarData, data, metarLookup, hourPx, visible,
                       showFlightCat, showTemp, catFilters, screen, weeks,
                       toggleParity, selectedAircraft>>

NextTemp == CallTempToColor

SpecTemp == InitTemp /\ [][NextTemp]_vars

----------------------------------------------------------------------------
\* variants that draw the flight-category and temperature rows
WeatherRowVariants == LayerVariants \cup {"App10"}

\* hrMap = metarLookup[key] || {}
HrMap(key) == IF key \in DOMAIN metarLookup THEN metarLookup[key] ELSE <<>>

RECURSIVE ValuesFrom(_, _)
\* the values of the keys not yet listed, least key first
ValuesFrom(hrMap, keys) ==
    IF keys = {} THEN <<>>
    ELSE LET h == CHOOSE x \in keys : \A y \in keys : x <= y
         IN  <<hrMap[h]>> \o ValuesFrom(hrMap, keys \ {h})

\* Object.values(hrMap): the values of the integer keys in ascending order
ObjectValues(hrMap) == ValuesFrom(hrMap, DOMAIN hrMap)

\* the <div> of one record: left h*hourPx, width hourPx, backgroundColor
HourSegment(rec, px, color) ==
    [left |-> RecHour(rec) * px, width |-> px, color |-> color,
     local_time |-> rec.local_time]

FlightCatCellUngated(show, px, date) ==
    IF variant \notin WeatherRowVariants THEN <<>>
    ELSE LET recs == ObjectValues(HrMap(ISOKey(date)))
         IN  [i \in 1..Len(recs) |->
                 HourSegment(recs[i], px,
                             flightCategoryColor[recs[i].flight_category])]

\* {showFlightCat && Object.values(hrMap).map(rec => ...)}; the variant
\* without layer toggles draws the row unconditionally
FlightCatCell(show, px, date) ==
    IF variant \notin WeatherRowVariants THEN <<>>
    ELSE IF variant \in LayerVariants /\ ~show THEN <<>>
    ELSE LET recs == ObjectValues(HrMap(ISOKey(date)))
         IN  [i \in 1..Len(recs) |->
                 HourSegment(recs[i], px,
                             flightCategoryColor[recs[i].flight_category])]

\* {showTemp && Object.values(hrMap).map(rec => ...)}
TempCell(show, px, date) ==
    IF variant \notin WeatherRowVariants THEN <<>>
    ELSE IF variant \in LayerVariants /\ ~show THEN <<>>
    ELSE LET recs == ObjectValues(HrMap(ISOKey(date)))
         IN  [i \in 1..Len(recs) |->
                 HourSegment(recs[i], px, tempToColor(recs[i].temp_C))]

----------------------------------------------------------------------------
(* Legend counts *)

\* the variants whose category buttons display categoryCounts[cat]
CountVariants == {"App24", "App09b", "part005"}

\* Object.keys(cnt).forEach(cat => { if (blockHasCategory(...)) cnt[cat]++ })
CountBlock(cnt, date, start, end) ==
    [c \in Categories |->
        IF blockHasCategory(date, start, end, c) THEN cnt[c] + 1 ELSE cnt[c]]

RECURSIVE CountBlocks(_, _, _, _)
\* blocks.forEach(([start, end]) => ...) from block i on
CountBlocks(cnt, date, blocks, i) ==
    IF i > Len(blocks) THEN cnt
    ELSE CountBlocks(CountBlock(cnt, date, blocks[i][1], blocks[i][2]),
                     date, blocks, i + 1)

RECURSIVE CountDates(_, _, _)
\* Object.entries(data[tail].blocksByDate).forEach(([dKey, blocks]) => ...)
\* over the keys not yet visited, with date = new Date(dKey)
CountDates(cnt, tail, keys) ==
    IF keys = {} THEN cnt
    ELSE LET dKey == CHOOSE d \in keys : \A e \in keys : d <= e
         IN  CountDates(CountBlocks(cnt, DateFromKey(dKey), data[tail][dKey], 1),
                        tail, keys \ {dKey})

RECURSIVE CountTails(_, _, _)
\* tailsOrder.forEach(tail => { if (!visible[tail]) return; ... }) from row j
CountTails(cnt, vis, j) ==
    IF j > Len(tailsOrder) THEN cnt
    ELSE LET tail == tailsOrder[j]
         IN  CountTails(IF vis[tail]
                        THEN CountDates(cnt, tail, DOMAIN data[tail])
                        ELSE cnt,
                        vis, j + 1)

categoryCountsAllAircraft(vis) ==
    CountTails([c \in Categories |-> 0], [t \in Tails |-> TRUE], 1)

\* categoryCounts, recomputed in the render pass with visible = vis
categoryCounts(vis) ==
    CountTails([c \in Categories |-> 0], vis, 1)

ScreenOfGridFilteredWeather(w, vis, filters, px, fc, tp) ==
    LET cols == ColumnsOf(w)
    IN  IF \E t \in Tails : \E k \in DOMAIN cols :
               CellThrows(vis, filters, px, t, cols[k])
        THEN Unmounted(cols)
        ELSE [crashed |-> FALSE,
              blocks |-> [t \in Tails |->
                            [k \in DOMAIN cols |->
                                AircraftCell(vis, filters, px, t, cols[k])]],
              cats |-> [k \in DOMAIN cols |->
                          SelectSeq(FlightCatCell(fc, px, cols[k]),
                                    LAMBDA sgm : \E c \in Categories :
                                        /\ filters[c]
                                        /\ flightCategoryColor[c] = sgm.color)],
              temps |-> [k \in DOMAIN cols |-> TempCell(tp, px, cols[k])],
              counts |-> IF variant \in CountVariants THEN categoryCounts(vis)
                         ELSE NoCounts]

\* the render pass over the week grid w: what App() returns when
\* visible = vis, catFilters = filters, hourPx = px, showFlightCat = fc and
\* showTemp = tp
ScreenOfGrid(w, vis, filters, px, fc, tp) ==
    LET cols == ColumnsOf(w)
    IN  IF \E t \in Tails : \E k \in DOMAIN cols :
               CellThrows(vis, filters, px, t, cols[k])
        THEN Unmounted(cols)
        ELSE [crashed |-> FALSE,
              blocks |-> [t \in Tails |->
                            [k \in DOMAIN cols |->
                                AircraftCell(vis, filters, px, t, cols[k])]],
              cats |-> [k \in DOMAIN cols |-> FlightCatCell(fc, px, cols[k])],
              temps |-> [k \in DOMAIN cols |-> TempCell(tp, px, cols[k])],
              counts |-> IF variant \in CountVariants THEN categoryCounts(vis)
                         ELSE NoCounts]

\* the render pass over the memoized grid
ScreenOf(vis, filters, px, fc, tp) ==
    ScreenOfGrid(weeks, vis, filters, px, fc, tp)

DateAfterInPlace(date, start, end) ==
    IF EndMin(start, end) > 24 * 60 THEN AddDay(date) ELSE date

\* the Date object passed to blockHasCategory when the call returns: the
\* roll-over builds nd = new Date(date) and advances nd; date is not assigned
DateAfterHasCategory(date, start, end) == date

RECURSIVE DateAfterBlocks(_, _, _, _)
\* blocks.map(...): the calls of the filter on one cell's blocks, in order
DateAfterBlocks(filters, date, blocks, i) ==
    IF i > Len(blocks) THEN date
    ELSE LET d == IF \E c \in Categories : filters[c]
                  THEN DateAfterHasCategory(date, blocks[i][1], blocks[i][2])
                  ELSE date
         IN  DateAfterBlocks(filters, d, blocks, i + 1)

RECURSIVE DateAfterRows(_, _, _, _)
\* tailsOrder.map(t => ... visible[t] && renderBlocks(t, d)): the Date object
\* of one day column after the aircraft rows from row j on are evaluated
DateAfterRows(vis, filters, date, j) ==
    IF j > Len(tailsOrder) THEN date
    ELSE LET t == tailsOrder[j]
             d == IF variant \in FilterVariants /\ vis[t]
                  THEN DateAfterBlocks(filters, date,
                                       BlocksOn(t, ISOKey(date)), 1)
                  ELSE date
         IN  DateAfterRows(vis, filters, d, j + 1)

\* the Date objects of the grid after a render pass
GridAfterRender(w, vis, filters) ==
    [k \in DOMAIN w |->
        [i \in DOMAIN w[k] |-> DateAfterRows(vis, filters, w[k][i], 1)]]

----------------------------------------------------------------------------
(* The component: state after the first render, and its event handlers *)

Wx(dKey, hr, cat, temp) ==
    [local_time |-> <<dKey, hr, 0>>, flight_category |-> cat, temp_C |-> temp]

\* weather datasets drawn for the component
AppWxData ==
    {<<Wx(D20250115, 23, "VFR", Num(5)), Wx(D20250115 + 1, 0, "IFR", Null),
       Wx(D20250115 + 1, 1, "MVFR", Num(-30)),
       Wx(D20250115, 0, "MVFR", Num(12)), Wx(D20250115 - 1, 23, "LIFR", Num(31)),
       Wx(D20250115, 0, "VFR", Num(30))>>}

\* activity datasets drawn for the component
AppActivityData ==
    {[t \in Tails |->
        IF t = "N65620"
          THEN (D20250115 :> <<(<<Code(23, 30), Code(1, 30)>>),
                               (<<Code(0, 0), Code(1, 0)>>)>>)
        ELSE IF t = "N854GW"
          THEN (D20250115 :> <<(<<Code(23, 0), Code(23, 45)>>)>>)
               @@ (D20250115 + 1 :> <<(<<Code(0, 15), Code(0, 45)>>)>>)
        ELSE (D20250115 - 1 :> <<(<<Code(23, 15), Code(0, 15)>>)>>)
             @@ (D20250115 + 1 :> <<(<<Code(12, 0), Code(13, 0)>>)>>)]}

Init ==
    /\ variant \in VisibleVariants
    /\ tz \in TZOffsets
    /\ metarData \in AppWxData
    /\ data \in AppActivityData
    /\ metarLookup = BuildLookup(metarData)
    /\ hourPx = DEFAULT_HOUR_PX
    /\ visible = [t \in Tails |-> TRUE]
    /\ showFlightCat = TRUE
    /\ showTemp = TRUE
    /\ catFilters = [c \in Categories |-> TRUE]
    /\ screen = ScreenOfGrid(Weeks, visible, catFilters, hourPx, showFlightCat,
                             showTemp)
    /\ weeks = GridAfterRender(Weeks, visible, catFilters)
    /\ toggleParity = NoToggles
    /\ selectedAircraft = InitialSelection
    /\ call = NoCall
    /\ ret = NoRet

\* the handlers exist while the component is mounted
Mounted == ~screen.crashed

\* setState schedules a render pass
Rerender ==
    /\ screen' = ScreenOf(visible', catFilters', hourPx', showFlightCat', showTemp')
    /\ weeks' = GridAfterRender(weeks, visible', catFilters')

toggleACHideOnly(t) ==
    /\ Mounted
    /\ visible' = [visible EXCEPT ![t] = FALSE]
    /\ CountToggle(t)
    /\ UNCHANGED <<selectedAircraft, variant, tz, metarData, data, metarLookup, hourPx,
                   showFlightCat, showTemp, catFilters, call, ret>>
    /\ Rerender

\* toggleAC(t) / toggle(t): setVisible(v => ({ ...v, [t]: !v[t] }))
toggleAC(t) ==
    /\ Mounted
    /\ visible' = [visible EXCEPT ![t] = ~visible[t]]
    /\ CountToggle(t)
    /\ UNCHANGED <<selectedAircraft, variant, tz, metarData, data, metarLookup, hourPx,
                   showFlightCat, showTemp, catFilters, call, ret>>
    /\ Rerender

\* toggleCat(c): setCatFilters(f => ({ ...f, [c]: !f[c] }))
toggleCat(c) ==
    /\ Mounted
    /\ variant \in FilterVariants
    /\ catFilters' = [catFilters EXCEPT ![c] = ~catFilters[c]]
    /\ CountToggle(c)
    /\ UNCHANGED <<selectedAircraft, variant, tz, metarData, data, metarLookup, hourPx,
                   visible, showFlightCat, showTemp, call, ret>>
    /\ Rerender

\* onClick={() => setShowFlightCat(f => !f)}
toggleFlightCat ==
    /\ Mounted
    /\ variant \in LayerVariants
    /\ showFlightCat' = ~showFlightCat
    /\ CountToggle("showFlightCat")
    /\ UNCHANGED <<selectedAircraft, variant, tz, metarData, data, metarLookup, hourPx,
                   visible, showTemp, catFilters, call, ret>>
    /\ Rerender

\* onClick={() => setShowTemp(t => !t)}
toggleTemp ==
    /\ Mounted
    /\ variant \in LayerVariants
    /\ showTemp' = ~showTemp
    /\ CountToggle("showTemp")
    /\ UNCHANGED <<selectedAircraft, variant, tz, metarData, data, metarLookup, hourPx,
                   visible, showFlightCat, catFilters, call, ret>>
    /\ Rerender

\* onChange={e => setHourPx(+e.target.value)}
zoom(px) ==
    /\ Mounted
    /\ variant \in ZoomVariants
    /\ hourPx' = px
    /\ UNCHANGED <<variant, tz, metarData, data, metarLookup, visible,
                   showFlightCat, showTemp, catFilters, toggleParity,
                   selectedAircraft, call, ret>>
    /\ Rerender

Next ==
    \/ \E t \in Tails : toggleAC(t)
    \/ \E c \in Categories : toggleCat(c)
    \/ toggleFlightCat
    \/ toggleTemp
    \/ \E px \in ZoomValues : zoom(px)

Spec == Init /\ [][Next]_vars

----------------------------------------------------------------------------
(* The App-00 component: a list of selected aircraft *)

\* const minutesInDay = 96: quarter-hour slots of one day
minutesInDay == 96

RECURSIVE generateDateRange(_, _)
\* while (current <= last) { dates.push(new Date(current)); current += 1 day }
generateDateRange(current, last) ==
    IF current <= last
    THEN <<current>> \o generateDateRange(AddDay(current), last)
    ELSE <<>>

\* allDates, over a two-day range standing for "2024-07-08" .. "2025-08-01"
App00Dates ==
    generateDateRange(DateFromKey(D20250115), DateFromKey(D20250115 + 1))

\* useState({}): the activity JSON before the fetch resolves
App00NoData == <<>>

\* the fetched activity JSON: date key -> tail -> {minutes}
App00Data ==
    (D20250115 :> [t \in Tails |->
                      [minutes |-> IF t = "N65620" THEN {32, 33} ELSE {}]])

\* prev.includes(tail)
Includes(list, tail) == \E i \in 1..Len(list) : list[i] = tail

\* entry?.minutes || [] with entry = dateKey && data[dateKey]?.[tail]
ActiveMinutes(d, dateKey, tail) ==
    IF dateKey \in DOMAIN d THEN d[dateKey][tail].minutes ELSE {}

\* what App() of App-00 returns: the toggle buttons, the width of a day
\* label and one row per element of selectedAircraft, in list order
App00Screen(selected, d) ==
    [crashed |-> FALSE,
     buttons |-> [t \in Tails |-> Includes(selected, t)],
     labelWidth |-> minutesInDay * Len(selected),
     rows |-> [i \in 1..Len(selected) |->
                 [tail |-> selected[i],
                  cells |-> [k \in DOMAIN App00Dates |->
                               ActiveMinutes(d, ISOKey(App00Dates[k]),
                                             selected[i])]]]]

InitApp00 ==
    /\ variant = "App00"
    /\ tz \in TZOffsets
    /\ metarData = <<>>
    /\ metarLookup = BuildLookup(metarData)
    /\ data = App00NoData
    /\ IdleFilters
    /\ weeks = <<>>
    /\ call = NoCall
    /\ ret = NoRet
    /\ screen = App00Screen(selectedAircraft, data)

\* useEffect(() => { fetch(...).then(res => res.json()).then(setData) }, [])
fetchData ==
    /\ data = App00NoData
    /\ data' = App00Data
    /\ screen' = App00Screen(selectedAircraft, data')
    /\ UNCHANGED <<variant, tz, metarData, metarLookup, hourPx, visible,
                   showFlightCat, showTemp, catFilters, weeks, toggleParity,
                   selectedAircraft, call, ret>>

toggleAircraftInPlace(tail) ==
    /\ selectedAircraft' =
           IF Includes(selectedAircraft, tail)
           THEN SelectSeq(selectedAircraft, LAMBDA t : t # tail)
           ELSE SelectSeq(InitialSelection,
                          LAMBDA t : t = tail \/ Includes(selectedAircraft, t))
    /\ CountToggle(tail)
    /\ call' = [fn |-> "toggleAircraft", tail |-> tail]
    /\ screen' = App00Screen(selectedAircraft', data)
    /\ UNCHANGED <<variant, tz, metarData, data, metarLookup, hourPx, visible,
                   showFlightCat, showTemp, catFilters, weeks, ret>>

\* toggleAircraft(tail): setSelectedAircraft(prev => prev.includes(tail)
\*   ? prev.filter(t => t !== tail) : [...prev, tail])
toggleAircraft(tail) ==
    /\ selectedAircraft' =
           IF Includes(selectedAircraft, tail)
           THEN SelectSeq(selectedAircraft, LAMBDA t : t # tail)
           ELSE Append(selectedAircraft, tail)
    /\ CountToggle(tail)
    /\ call' = [fn |-> "toggleAircraft", tail |-> tail]
    /\ screen' = App00Screen(selectedAircraft', data)
    /\ UNCHANGED <<variant, tz, metarData, data, metarLookup, hourPx, visible,
                   showFlightCat, showTemp, catFilters, weeks, ret>>

NextApp00 ==
    \/ fetchData
    \/ \E tail \in Tails : toggleAircraft(tail)

SpecApp00 == InitApp00 /\ [][NextApp00]_vars

----------------------------------------------------------------------------
(* Properties of the aircraft rows on screen *)

\* variants whose renderBlocks filters with blockHasCategory and draws every
\* block that passes
HasCategoryVariants == {"App24", "part005"}

\* C5: renderBlocks emits a segment for an activity interval iff some enabled
\* category c has blockHasCategory(date, start, end, c) true, and null
\* otherwise; with VFR disabled an interval matching no category other than
\* VFR is suppressed whatever the other three filters are.
C5_EnabledCategoryMatch ==
    variant \in HasCategoryVariants =>
        \A t \in Tails : \A k \in DOMAIN Columns :
            visible[t] =>
                LET date   == Columns[k]
                    blocks == BlocksOn(t, ISOKey(date))
                    cell   == screen.blocks[t][k]
                IN  /\ Len(cell) = Len(blocks)
                    /\ \A i \in 1..Len(blocks) :
                        LET hasCat(c) == blockHasCategory(date, blocks[i][1],
                                                          blocks[i][2], c)
                        IN  /\ cell[i].shown <=>
                                   \E c \in Categories : catFilters[c] /\ hasCat(c)
                            /\ ~cell[i].shown => cell[i] = NullSegment
                            /\ (/\ ~catFilters["VFR"]
                                /\ \A c \in Categories \ {"VFR"} : ~hasCat(c))
                                 => ~cell[i].shown

\* VFR alone is disabled: an interval met only by VFR weather is suppressed
\* while an interval also met by IFR weather is drawn
C5_Witness ==
    /\ variant = "App24"
    /\ catFilters = [c \in Categories |-> c # "VFR"]
    /\ \E t \in Tails : \E k \in DOMAIN Columns :
        LET date   == Columns[k]
            blocks == BlocksOn(t, ISOKey(date))
        IN  /\ visible[t]
            /\ \E i \in 1..Len(blocks) :
                /\ blockHasCategory(date, blocks[i][1], blocks[i][2], "VFR")
                /\ ~screen.blocks[t][k][i].shown
    /\ \E t \in Tails : \E k \in DOMAIN Columns :
        LET date   == Columns[k]
            blocks == BlocksOn(t, ISOKey(date))
        IN  /\ visible[t]
            /\ \E i \in 1..Len(blocks) :
                /\ blockHasCategory(date, blocks[i][1], blocks[i][2], "VFR")
                /\ screen.blocks[t][k][i].shown

\* C6: in every variant that keeps per-aircraft visibility flags, no activity
\* segment is on screen for an aircraft whose flag is false, and the segments
\* of every aircraft whose flag is true are (while the component is mounted).
C6_HiddenAircraft ==
    (variant \in VisibleVariants /\ ~screen.crashed) =>
        \A t \in Tails : \A k \in DOMAIN Columns :
            LET cell == screen.blocks[t][k]
            IN  /\ ~visible[t] => \A i \in 1..Len(cell) : ~cell[i].shown
                /\ visible[t] =>
                       Len(cell) = Len(BlocksOn(t, ISOKey(Columns[k])))

----------------------------------------------------------------------------
(* Properties of the Weather Join Index *)

\* the positions of metarData whose record falls in bucket (dKey, hr)
PositionsAt(dKey, hr) ==
    {i \in 1..Len(metarData) :
        metarData[i].local_time[1] = dKey /\ metarData[i].local_time[2] = hr}

\* the greatest element of a non-empty set of positions
LastOf(S) == CHOOSE i \in S : \A j \in S : j <= i

\* the buckets the index has an entry for
IndexedPairs ==
    {p \in (DOMAIN metarLookup) \X (0..23) : p[2] \in DOMAIN metarLookup[p[1]]}

\* C11: the index built from a sequence of weather records has an entry for
\* exactly the (date, hour) pairs occurring in the sequence (inner keys are
\* hours 0..23 only), and the entry of a pair is the last record of the
\* sequence with that pair.
C11_LastWriteWins ==
    /\ \A d \in DOMAIN metarLookup : DOMAIN metarLookup[d] \subseteq 0..23
    /\ IndexedPairs =
         {<<metarData[i].local_time[1], metarData[i].local_time[2]>> :
             i \in 1..Len(metarData)}
    /\ \A p \in IndexedPairs :
         metarLookup[p[1]][p[2]] = metarData[LastOf(PositionsAt(p[1], p[2]))]

\* VFR then IFR in the same bucket: the lookup returns the IFR record
C11_Witness ==
    /\ Len(metarData) >= 2
    /\ metarData[1].local_time = metarData[2].local_time
    /\ metarData[1].flight_category = "VFR"
    /\ metarData[2].flight_category = "IFR"
    /\ PositionsAt(metarData[1].local_time[1], metarData[1].local_time[2]) = {1, 2}
    /\ metarLookup[metarData[1].local_time[1]][metarData[1].local_time[2]]
           .flight_category = "IFR"

----------------------------------------------------------------------------
(* Properties of the Calendar Grid Builder *)

IsBuildWeeks == call.fn = "buildWeeks"

IsGetWeeks == call.fn = "getWeeks"

\* the calendar date of a Date object on the local clock, as a day number
LocalDay(date) == (date + tz) \div MinutesPerDay

\* the Monday of the Monday-Sunday week holding the date
MondayOf(date) == LocalDay(date) - ((GetDay(date) + 6) % 7)

\* 7 consecutive calendar dates, Monday through Sunday
IsMondayWeek(wk) ==
    /\ Len(wk) = 7
    /\ \A i \in 1..7 : GetDay(wk[i]) = i % 7
    /\ \A i \in 1..6 : LocalDay(wk[i + 1]) = LocalDay(wk[i]) + 1

\* C12: every week emitted by buildWeeks is 7 consecutive calendar dates
\* Monday through Sunday, the first emitted date is a Monday, and each
\* week's Monday is the day after the previous week's Sunday.
C12_MondayWeeks ==
    IsBuildWeeks =>
        /\ \A k \in 1..Len(ret) : IsMondayWeek(ret[k])
        /\ Len(ret) > 0 => GetDay(ret[1][1]) = 1
        /\ \A k \in 1..(Len(ret) - 1) :
               LocalDay(ret[k + 1][1]) = LocalDay(ret[k][7]) + 1

\* a mid-week start: the first week is back-filled and a second week follows
C12_Witness ==
    /\ IsBuildWeeks
    /\ GetDay(call.start) = 4
    /\ Len(ret) = 3
    /\ LocalDay(ret[1][1]) < LocalDay(call.start)

\* C13: in every variant of the grid builder (buildWeeks, and getWeeks of
\* the earliest variant) every emitted week has all 7 dates, also when the
\* end date falls mid-week.
C13_FullWeeks ==
    (IsBuildWeeks \/ IsGetWeeks) => \A k \in 1..Len(ret) : Len(ret[k]) = 7

\* C14: for start <= end the weeks of buildWeeks cover the range: the first
\* Monday is 0..6 days before start, the last Sunday is on or after end, and
\* every calendar date of [start, end] is in exactly one week.
C14_CoversRange ==
    (IsBuildWeeks /\ call.start <= call.end) =>
        /\ Len(ret) > 0
        /\ LocalDay(ret[1][1]) <= LocalDay(call.start)
        /\ LocalDay(call.start) - LocalDay(ret[1][1]) <= 6
        /\ LocalDay(ret[Len(ret)][7]) >= LocalDay(call.end)
        /\ \A day \in LocalDay(call.start)..LocalDay(call.end) :
               Cardinality({p \in (1..Len(ret)) \X (1..7) :
                               LocalDay(ret[p[1]][p[2]]) = day}) = 1

\* a range from mid-week to mid-week two weeks later
C14_Witness ==
    /\ IsBuildWeeks
    /\ GetDay(call.start) = 3
    /\ GetDay(call.end) = 5
    /\ LocalDay(call.end) - LocalDay(call.start) > 7
    /\ LocalDay(ret[Len(ret)][7]) > LocalDay(call.end)

\* C15: buildWeeks returns no week whenever start is after end.
C15_EmptyWhenReversed ==
    (IsBuildWeeks /\ call.start > call.end) => ret = <<>>

\* C16: for start <= end buildWeeks emits no week wholly outside the range:
\* a Monday start is the first emitted date, a Sunday end is the last
\* emitted date, and a range inside one Monday-Sunday week gives one week.
C16_NoSpareWeek ==
    (IsBuildWeeks /\ call.start <= call.end) =>
        /\ \A k \in 1..Len(ret) :
               \E i \in 1..Len(ret[k]) :
                   /\ LocalDay(call.start) <= LocalDay(ret[k][i])
                   /\ LocalDay(ret[k][i]) <= LocalDay(call.end)
        /\ GetDay(call.start) = 1 =>
               Len(ret) > 0 /\ ret[1][1] = call.start
        /\ GetDay(call.end) = 0 =>
               Len(ret) > 0 /\ ret[Len(ret)][7] = call.end
        /\ MondayOf(call.start) = MondayOf(call.end) => Len(ret) = 1

\* a range from a Monday to the Sunday of the following week
C16_Witness ==
    /\ IsBuildWeeks
    /\ GetDay(call.start) = 1
    /\ GetDay(call.end) = 0
    /\ Len(ret) = 2
    /\ ret[1][1] = call.start
    /\ ret[2][7] = call.end

----------------------------------------------------------------------------
(* Properties of the weather rows on screen *)

\* variants with layer toggles whose render pass completes
RowToggleVariants == LayerVariants \ VariantsConstEnd

\* the hours indexed under the key of a day column
IndexedHours(date) ==
    IF ISOKey(date) \in DOMAIN metarLookup
    THEN DOMAIN metarLookup[ISOKey(date)] ELSE {}

\* a row cell holds exactly one segment per indexed hour of the date, at
\* left = hour x hourPx with width hourPx, inside the day column and
\* pairwise disjoint
OnePerIndexedHour(cell, date) ==
    /\ Len(cell) = Cardinality(IndexedHours(date))
    /\ \A h \in IndexedHours(date) :
           Cardinality({i \in 1..Len(cell) : cell[i].left = h * hourPx}) = 1
    /\ \A i \in 1..Len(cell) :
           /\ cell[i].width = hourPx
           /\ 0 <= cell[i].left
           /\ cell[i].left + cell[i].width <= 24 * hourPx
    /\ \A i, j \in 1..Len(cell) :
           i # j => \/ cell[i].left + cell[i].width <= cell[j].left
                    \/ cell[j].left + cell[j].width <= cell[i].left

\* C17: weather-category segments are on screen iff showFlightCat is true,
\* and then one per indexed hour of the date with left = hour x hourPx and
\* width = hourPx; temperature segments likewise iff showTemp is true; each
\* layer follows its own toggle only.
C17_LayerSegments ==
    variant \in RowToggleVariants =>
        \A k \in DOMAIN Columns :
            /\ showFlightCat => OnePerIndexedHour(screen.cats[k], Columns[k])
            /\ ~showFlightCat => screen.cats[k] = <<>>
            /\ showTemp => OnePerIndexedHour(screen.temps[k], Columns[k])
            /\ ~showTemp => screen.temps[k] = <<>>

\* the category layer is on and the temperature layer off, zoomed to
\* 6 px/hour: a day with two indexed hours shows two category segments and
\* no temperature segment
C17_Witness ==
    /\ variant = "App24"
    /\ showFlightCat /\ ~showTemp
    /\ hourPx = 6
    /\ \E k \in DOMAIN Columns :
           /\ Len(screen.cats[k]) = 2
           /\ screen.cats[k][2].left = 6
           /\ screen.temps[k] = <<>>

----------------------------------------------------------------------------
(* Properties of the temperature bands *)

IsTempToColor == call.fn = "tempToColor"

\* the seven band colours, coldest first
Bands ==
    <<"#2c003e", "#0033cc", "#33ccff", "#66ffcc", "#ffff99", "#ffcc00",
      "#ff3300">>

\* the six breakpoints
Breakpoints == {-30, -10, 0, 10, 20, 30}

\* the positions of a colour among the bands
BandsOf(color) == {i \in 1..Len(Bands) : Bands[i] = color}

\* C18: tempToColor maps every non-null integer temperature to exactly one
\* of seven ordered bands, the band index never decreases as the temperature
\* rises, the six breakpoints are inclusive upper bounds (30 is in the sixth
\* band, 31 in the warmest), and null maps to no band (transparent).
C18_TempBands ==
    IsTempToColor =>
        /\ \A i \in 1..2 :
            IF call.temps[i] = Null
            THEN ret[i] = "transparent" /\ BandsOf(ret[i]) = {}
            ELSE BandsOf(ret[i]) =
                   {1 + Cardinality({b \in Breakpoints : call.temps[i][1] > b})}
        /\ (/\ call.temps[1] # Null /\ call.temps[2] # Null
            /\ call.temps[1][1] <= call.temps[2][1])
             => \A i \in BandsOf(ret[1]) : \A j \in BandsOf(ret[2]) : i <= j

\* 30 is the last temperature of the sixth band, 31 the first of the seventh
C18_Witness ==
    /\ IsTempToColor
    /\ call.temps = <<Num(30), Num(31)>>
    /\ ret = <<Bands[6], Bands[7]>>

----------------------------------------------------------------------------
(* Frame of an overlay evaluation *)

\* the components of FilterState
FilterState == <<visible, catFilters, showFlightCat, showTemp, hourPx>>

----------------------------------------------------------------------------
(* Cost of the Category Membership Test *)

\* ceil((eMin - sMin) / 60) of the call
SteppedBucketCount == (IntervalEnd - IntervalStart + 59) \div 60

\* C20: blockHasCategory terminates for every well-formed interval: without
\* an early return its loop runs exactly ceil((eMin - sMin) / 60) times,
\* which is between 1 and 24, with one index lookup per iteration; an early
\* return only shortens it.
C20_BoundedLoop ==
    IsBHC =>
        /\ 1 <= SteppedBucketCount /\ SteppedBucketCount <= 24
        /\ 1 <= Len(ret.lookups) /\ Len(ret.lookups) <= 24
        /\ ~ret.value => Len(ret.lookups) = SteppedBucketCount
        /\ ret.value => Len(ret.lookups) <= SteppedBucketCount

\* start = end: the loop runs over all 24 buckets without a match
C20_Witness ==
    /\ IsBHC
    /\ call.start = call.end
    /\ ~ret.value
    /\ Len(ret.lookups) = 24

----------------------------------------------------------------------------
(* Membership test and geometry of the same block *)

HasBoth == IsGeom /\ call.variant \in MembershipVariants

\* the bucket k steps after hour sh of the column's date
BucketAfter(sh, k) ==
    IF sh + k < 24 THEN <<ISOKey(GeomDate), sh + k>>
    ELSE <<ISOKey(GeomDate) + 1, sh + k - 24>>

\* C21: at start = end the variants with a membership test treat the block
\* as a full day: the rendered width is 24 x scale and the test steps
\* through exactly 24 buckets, hours sh..23 of the date and 0..sh-1 of the
\* next date.
C21_FullDayAtEqual ==
    (HasBoth /\ call.start = call.end) =>
        /\ ~ret.threw
        /\ ret.width60 = 24 * call.px * 60
        /\ Len(call.test.lookups) = 24
        /\ \A k \in 0..23 :
               call.test.lookups[k + 1] = BucketAfter(HourOf(call.start), k)

\* C24: in every variant with both, the cross-midnight decisions agree:
\* eMin <= sMin exactly when eH <= sH, after adjustment
\* eMin - sMin = 60 x (eH - sH), and the number of stepped buckets is the
\* rendered duration in hours rounded up.
C24_DecisionsAgree ==
    HasBoth =>
        /\ ~ret.threw
        /\ (call.test.eMin # ParsedEnd60) <=> (ret.eH60 # ParsedEnd60)
        /\ (ParsedEnd60 <= call.test.sMin) <=> (ParsedEnd60 <= ret.sH60)
        /\ call.test.eMin - call.test.sMin = ret.eH60 - ret.sH60
        /\ Len(call.test.lookups) = (ret.eH60 - ret.sH60 + 59) \div 60

----------------------------------------------------------------------------
(* Frame of the toggle actions *)

\* the value of a flag of FilterState
FlagValue(f) ==
    IF f \in Tails THEN visible[f]
    ELSE IF f \in Categories THEN catFilters[f]
    ELSE IF f = "showFlightCat" THEN showFlightCat
    ELSE showTemp

\* the flags whose toggle was called in the step
ToggledInStep == {f \in Flags : toggleParity'[f] # toggleParity[f]}

\* C22: a toggle action flips exactly its own boolean and leaves every
\* other FilterState component, both datasets, the weather index and the
\* week grid unchanged; at any time a flag is true exactly when it has been
\* toggled an even number of times, and the index is the one built at
\* startup from the weather dataset.
C22_ToggleFrame ==
    /\ [](/\ \A f \in Flags : FlagValue(f) <=> (toggleParity[f] = 0)
          /\ metarLookup = BuildLookup(metarData))
    /\ [][/\ Cardinality(ToggledInStep) <= 1
          /\ \A f \in Flags :
                FlagValue(f)' = IF f \in ToggledInStep THEN ~FlagValue(f)
                                ELSE FlagValue(f)
          /\ ToggledInStep # {} => hourPx' = hourPx
          /\ data' = data /\ metarData' = metarData
          /\ metarLookup' = metarLookup /\ weeks' = weeks]_vars

\* one flag of each kind is off after an odd number of toggles, and an
\* aircraft toggled is the only hidden one
C22_Witness ==
    /\ variant = "App24"
    /\ visible = [t \in Tails |-> t # "N854GW"]
    /\ toggleParity["N854GW"] = 1
    /\ ~catFilters["IFR"] /\ toggleParity["IFR"] = 1
    /\ ~showTemp /\ toggleParity["showTemp"] = 1
    /\ showFlightCat /\ toggleParity["showFlightCat"] = 0
    /\ metarLookup = BuildLookup(metarData)

----------------------------------------------------------------------------
(* The two formulations of the activity filter *)

IsBothFilters == call.fn = "filters"

\* C23: blockMatchesFilters of App (19) (some stepped bucket's record has an
\* enabled category) and the later test (some enabled category c has
\* blockHasCategory(date, start, end, c)) return the same boolean for every
\* index, filter state, date and interval.
C23_SameFilter ==
    IsBothFilters => (ret.matchesFilters <=> ret.someCategory)

\* VFR is disabled and the interval rolls past midnight: both formulations
\* accept it on an IFR record of a later bucket, after a VFR record in the
\* first bucket
C23_Witness ==
    /\ IsBothFilters
    /\ ~call.filters["VFR"] /\ call.filters["IFR"]
    /\ call.start = Code(23, 30) /\ call.end = Code(1, 30)
    /\ Len(metarData) = 2
    /\ metarData[1].flight_category = "VFR"
    /\ metarData[1].local_time = <<ISOKey(call.date), 23, 0>>
    /\ metarData[2].flight_category = "IFR"
    /\ ret.matchesFilters /\ ret.someCategory

----------------------------------------------------------------------------
(* Activity without weather *)

\* the variants cited for the filter whose render pass completes
DrawnFilterVariants == FilterVariants \ VariantsConstEnd

\* some stepped bucket of the interval has an indexed weather record
AnyBucketIndexed(date, start, end) ==
    \E j \in 0..23 :
        LET t == StartMin(start) + 60 * j
            b == Bucket(date, t)
        IN  t < EndMin(start, end) /\ HasRec(b[1], b[2])

\* C25: with all four category filters enabled and the aircraft visible, an
\* activity interval is rendered iff at least one of its stepped (date, hour)
\* buckets has an indexed weather record; an interval with no weather data in
\* any stepped bucket is not rendered at all.
C25_WeatherlessHidden ==
    (variant \in DrawnFilterVariants /\ \A c \in Categories : catFilters[c]) =>
        \A t \in Tails : \A k \in DOMAIN Columns :
            visible[t] =>
                LET date   == Columns[k]
                    blocks == BlocksOn(t, ISOKey(date))
                    cell   == screen.blocks[t][k]
                IN  /\ Len(cell) = Len(blocks)
                    /\ \A i \in 1..Len(blocks) :
                        /\ cell[i].shown <=>
                               AnyBucketIndexed(date, blocks[i][1], blocks[i][2])
                        /\ ~cell[i].shown => cell[i] = NullSegment

\* every filter is on and the aircraft is visible: its noon interval, on a
\* day with no record at 12:00, is absent while another aircraft's interval
\* is drawn
C25_Witness ==
    /\ variant = "App19"
    /\ \A c \in Categories : catFilters[c]
    /\ visible["N756VH"] /\ visible["N854GW"]
    /\ \E k \in DOMAIN Columns :
        LET blocks == BlocksOn("N756VH", ISOKey(Columns[k]))
        IN  /\ Len(blocks) = 1
            /\ blocks[1] = <<Code(12, 0), Code(13, 0)>>
            /\ screen.blocks["N756VH"][k] = <<NullSegment>>
    /\ \E k \in DOMAIN Columns :
        /\ Len(screen.blocks["N854GW"][k]) = 1
        /\ screen.blocks["N854GW"][k][1].shown

----------------------------------------------------------------------------
(* Monotonicity in the category filters *)

\* the activity intervals drawn on a screen
ShownOn(scr) ==
    UNION {UNION {{<<t, k, i>> :
                      i \in {j \in DOMAIN scr.blocks[t][k] :
                                 scr.blocks[t][k][j].shown}} :
                  k \in DOMAIN scr.blocks[t]} :
           t \in Tails}

\* every category enabled in f is enabled in g
FiltersWithin(f, g) == \A c \in Categories : f[c] => g[c]

\* C26: the set of rendered activity intervals is monotone in the category
\* filters: a step that only enables categories removes no rendered
\* interval, a step that only disables categories adds none, and with all
\* four categories disabled no interval is rendered for any aircraft or date.
C26_MonotoneInFilters ==
    /\ []((variant \in FilterVariants /\ \A c \in Categories : ~catFilters[c])
            => ShownOn(screen) = {})
    /\ [][visible' = visible =>
            /\ FiltersWithin(catFilters, catFilters')
                  => ShownOn(screen) \subseteq ShownOn(screen')
            /\ FiltersWithin(catFilters', catFilters)
                  => ShownOn(screen') \subseteq ShownOn(screen)]_vars

\* all four categories are disabled with every aircraft visible: the cells
\* keep their blocks, none of them drawn
C26_Witness ==
    /\ variant = "App24"
    /\ \A c \in Categories : ~catFilters[c]
    /\ \A t \in Tails : visible[t]
    /\ ShownOn(screen) = {}
    /\ \E k \in DOMAIN Columns : Len(screen.blocks["N65620"][k]) = 2

----------------------------------------------------------------------------
(* Properties of the legend counts *)

\* block i of aircraft t under date key dKey has, in one of its stepped
\* buckets, an indexed record of category c
BlockMeets(t, dKey, i, c) ==
    LET start == data[t][dKey][i][1]
        end   == data[t][dKey][i][2]
    IN  \E j \in 0..23 :
            LET m == StartMin(start) + 60 * j
                b == IF m \div 60 >= 24 THEN <<dKey + 1, (m \div 60) - 24>>
                     ELSE <<dKey, m \div 60>>
            IN  /\ m < EndMin(start, end)
                /\ HasRec(b[1], b[2])
                /\ metarLookup[b[1]][b[2]].flight_category = c

\* the (date, interval) pairs of aircraft t that meet category c
PairsMeeting(t, c) ==
    UNION {{<<dKey, i>> : i \in {n \in 1..Len(data[t][dKey]) :
                                    BlockMeets(t, dKey, n, c)}} :
           dKey \in DOMAIN data[t]}

\* the (aircraft, date, interval) triples over visible aircraft meeting c
TriplesMeeting(c) ==
    UNION {{<<t>> \o p : p \in PairsMeeting(t, c)} :
           t \in {u \in Tails : visible[u]}}

\* the change of the counts in one step: none while the visibility flags
\* stay, the hidden aircraft's own matches when one aircraft is hidden
CountsStep ==
    /\ visible' = visible => screen'.counts = screen.counts
    /\ \A t \in Tails :
          (visible[t] /\ visible' = [visible EXCEPT ![t] = FALSE]) =>
              \A c \in Categories :
                  screen'.counts[c] =
                      screen.counts[c] - Cardinality(PairsMeeting(t, c))

\* C27: categoryCounts[c] is the number of (aircraft, date, interval) triples
\* over the visible aircraft whose interval has category c, an interval of
\* several categories counting once under each; a step that leaves the
\* visibility flags alone (category filter, layer toggle, zoom) leaves the
\* counts alone, and hiding an aircraft lowers each count by that aircraft's
\* own number of matching intervals.
C27_CategoryCounts ==
    /\ [](variant \in HasCategoryVariants =>
            \A c \in Categories :
                screen.counts[c] = Cardinality(TriplesMeeting(c)))
    /\ [][(variant \in HasCategoryVariants) => CountsStep]_vars

\* one aircraft is hidden and a category filter is off: the interval
\* 23:30-01:30 of a visible aircraft counts under both VFR and IFR, and the
\* hidden aircraft's intervals are left out of the counts
C27_Witness ==
    /\ variant = "App24"
    /\ visible = [t \in Tails |-> t # "N854GW"]
    /\ ~catFilters["VFR"]
    /\ \A c \in {"VFR", "IFR"} :
           <<"N65620", D20250115, 1>> \in TriplesMeeting(c)
    /\ PairsMeeting("N854GW", "VFR") # {}
    /\ screen.counts["VFR"] = Cardinality(TriplesMeeting("VFR"))
    /\ screen.counts["VFR"] >= 1

----------------------------------------------------------------------------
(* Weather rows and the activity filters *)

\* a step that leaves the layer toggles and the zoom alone
LayersKept ==
    /\ showFlightCat' = showFlightCat
    /\ showTemp' = showTemp
    /\ hourPx' = hourPx

\* the record indexed at hour h of column k has its segment in the category
\* row, in the colour of its own category
CategorySegmentDrawn(k, h) ==
    LET rec == metarLookup[ISOKey(Columns[k])][h]
    IN  \E i \in DOMAIN screen.cats[k] :
            /\ screen.cats[k][i].local_time = rec.local_time
            /\ screen.cats[k][i].color = flightCategoryColor[rec.flight_category]

\* C28: toggling category filters or aircraft visibility never changes the
\* weather-category or temperature segments of any day: while showFlightCat
\* is on, the segment of every indexed record is on screen whether or not
\* its category is enabled in catFilters.
C28_WeatherUnfiltered ==
    /\ [][LayersKept => (/\ screen'.cats = screen.cats
                         /\ screen'.temps = screen.temps)]_vars
    /\ []((variant \in RowToggleVariants /\ showFlightCat) =>
            \A k \in DOMAIN Columns :
                \A h \in DOMAIN HrMap(ISOKey(Columns[k])) :
                    CategorySegmentDrawn(k, h))

\* VFR is filtered out and an aircraft is hidden: the VFR segment of a day is
\* still in the category row, and the temperature row keeps its segments
C28_Witness ==
    /\ variant = "App24"
    /\ ~catFilters["VFR"] /\ ~visible["N65620"]
    /\ toggleParity["VFR"] = 1 /\ toggleParity["N65620"] = 1
    /\ showFlightCat /\ showTemp
    /\ \E k \in DOMAIN Columns :
        /\ \E i \in DOMAIN screen.cats[k] :
               screen.cats[k][i].color = flightCategoryColor["VFR"]
        /\ screen.temps[k] # <<>>

----------------------------------------------------------------------------
(* Properties of the App-00 selection list *)

\* the identifier toggled by the step, if the step is a toggleAircraft call
ToggledTail(t) == toggleParity'[t] # toggleParity[t]

\* the identifiers of the rendered aircraft rows, top to bottom
RowOrder == [i \in DOMAIN screen.rows |-> screen.rows[i].tail]

\* C29: in App-00, after any sequence of toggleAircraft calls the list
\* selectedAircraft has no duplicate, and an identifier is in it exactly when
\* it was toggled an even number of times; toggling an absent identifier
\* appends it at the end and toggling a present one removes it keeping the
\* order of the rest, and the aircraft rows are rendered in list order.
C29_SelectionList ==
    /\ [](/\ \A i, j \in DOMAIN selectedAircraft :
                 selectedAircraft[i] = selectedAircraft[j] => i = j
          /\ \A t \in Tails :
                 Includes(selectedAircraft, t) <=> (toggleParity[t] = 0)
          /\ RowOrder = selectedAircraft)
    /\ [][\A t \in Tails : ToggledTail(t) =>
              IF Includes(selectedAircraft, t)
              THEN selectedAircraft' =
                       SelectSeq(selectedAircraft, LAMBDA u : u # t)
              ELSE /\ Len(selectedAircraft') = Len(selectedAircraft) + 1
                   /\ selectedAircraft'[Len(selectedAircraft')] = t
                   /\ SubSeq(selectedAircraft', 1, Len(selectedAircraft))
                         = selectedAircraft]_vars

\* the first identifier was toggled off and on again: every identifier is
\* selected, and the rows are in an order other than the initial one
C29_Witness ==
    /\ variant = "App00"
    /\ \A t \in Tails : toggleParity[t] = 0
    /\ call = [fn |-> "toggleAircraft", tail |-> "N756VH"]
    /\ selectedAircraft = <<"N65620", "N854GW", "N756VH">>
    /\ RowOrder = selectedAircraft
    /\ RowOrder # InitialSelection

----------------------------------------------------------------------------
(* Date keys of the day columns *)

\* the variants building the grid with buildWeeks(START_DATE, END_DATE) from
\* local-midnight constants
LocalGridVariants == {"App24", "App19", "part005"}

\* C30: for every date d emitted by buildWeeks from the local-midnight
\* START_DATE and END_DATE, the key d.toISOString().slice(0,10) used to look
\* up the column's activity blocks and weather records is d's own local
\* calendar date, whatever the UTC offset of the runtime.
C30_KeyIsLocalDate ==
    variant \in LocalGridVariants =>
        \A k \in DOMAIN Columns : ISOKey(Columns[k]) = LocalDay(Columns[k])

====
